---- MODULE Spec2Model ----
(***************************************************************************)
(* A model of reddit_monitor.py: the relevance filter (check_relevance),   *)
(* the search aggregator (search_reddit), the stream monitor               *)
(* (monitor_reddit), the result formatter (output_results) and the part of *)
(* main that selects the output format of the search command.              *)
(*                                                                         *)
(* Strings whose characters matter (texts, keywords, file paths) are       *)
(* sequences of one-character strings.  The external client (praw) is the  *)
(* environment: what it yields, and whether it raises, is chosen           *)
(* nondeterministically.                                                   *)
(***************************************************************************)
EXTENDS Integers, Sequences, FiniteSets, TLC

VARIABLES
    pc,        \* position of the running function
    text,      \* check_relevance: the text argument
    keywords,  \* the keyword list argument (all three functions)
    result,    \* check_relevance: the value returned
    kwIdx,     \* search_reddit: index of the keyword of the for loop
    queried,   \* history: the keywords passed to subreddit.search, in order
    outcome,   \* history: per queried keyword, "ok" or "failed"
    yielded,   \* history: every post the client yielded, with its keyword index
    nPosts,    \* search_reddit: posts yielded so far by the current search
    results,   \* search_reddit: the local list results; output_results: its argument
    returned,  \* search_reddit: the list returned (unique_results)
    stdout,    \* everything written to sys.stdout, in order
    flushed,   \* how many entries of stdout have been flushed
    stderr,    \* everything written to sys.stderr, in order
    files,     \* the file system: a set of [path, content]
    call,      \* output_results / main: the arguments of the call made
    events     \* monitor_reddit: the submissions taken from the stream so far

vars == <<pc, text, keywords, result, kwIdx, queried, outcome, yielded, nPosts,
          results, returned, stdout, flushed, stderr, files, call, events>>

(***************************************************************************)
(* Bounds of the model.                                                    *)
(***************************************************************************)
MaxTextLen == 3      \* longest text given to check_relevance
MaxKeywords == 2     \* longest keyword list given to check_relevance
Limit == 2           \* search_reddit's limit: posts one search may yield
MaxResults == 2      \* longest list given to output_results
MaxLimit == 3        \* largest display cap given to output_results
MaxEvents == 3       \* submissions the stream delivers before the model stops

(***************************************************************************)
(* Strings.                                                                *)
(***************************************************************************)
Chars == {"a", "A", "b", "B"}

\* Python's None where a str is expected; no text holds this token.
None == <<"None">>

\* bool(s) of an optional str: None and "" are falsy.
Truthy(s) == s # None /\ s # <<>>

RECURSIVE SeqsUpTo(_, _)
SeqsUpTo(S, n) ==
    IF n = 0 THEN {<<>>}
    ELSE LET shorter == SeqsUpTo(S, n - 1)
         IN  shorter \cup {Append(s, x) : s \in {t \in shorter : Len(t) = n - 1}, x \in S}

Texts == SeqsUpTo(Chars, MaxTextLen)

\* The keyword strings the model draws from: empty, one character in either
\* case, two characters in mixed case.
KeywordStrings == {<<>>, <<"a">>, <<"B">>, <<"a", "B">>, <<"b", "A">>}

KeywordLists == SeqsUpTo(KeywordStrings, MaxKeywords)

\* str.lower() on one character.
LowerChar(c) ==
    CASE c = "A" -> "a"
      [] c = "B" -> "b"
      [] OTHER -> c

\* str.lower()
Lower(s) == [i \in 1..Len(s) |-> LowerChar(s[i])]

\* Python's `sub in s` on strings.
Contains(s, sub) ==
    \E i \in 0..(Len(s) - Len(sub)) : SubSeq(s, i + 1, i + Len(sub)) = sub

\* s.endswith(suffix)
EndsWith(s, suffix) ==
    /\ Len(s) >= Len(suffix)
    /\ SubSeq(s, Len(s) - Len(suffix) + 1, Len(s)) = suffix

(***************************************************************************)
(* check_relevance                                                         *)
(***************************************************************************)
\* any(kw.lower() in text_lower for kw in keywords), from keyword i on.
RECURSIVE AnyKeyword(_, _, _)
AnyKeyword(kws, text_lower, i) ==
    IF i > Len(kws) THEN FALSE
    ELSE IF Contains(text_lower, Lower(kws[i])) THEN TRUE
    ELSE AnyKeyword(kws, text_lower, i + 1)

\* A check_relevance that forgets to lower-case the keyword.
check_relevance_raw_keyword(t, kws) ==
    LET text_lower == Lower(t)
    IN  \E i \in 1..Len(kws) : Contains(text_lower, kws[i])

check_relevance(t, kws) ==
    LET text_lower == Lower(t)
    IN  AnyKeyword(kws, text_lower, 1)

(***************************************************************************)
(* The values of the variables a function does not use.                    *)
(***************************************************************************)
IdleRelevance == text = <<>> /\ result = FALSE
IdleSearch ==
    /\ kwIdx = 0 /\ queried = <<>> /\ outcome = <<>> /\ yielded = <<>>
    /\ nPosts = 0 /\ returned = <<>>
IdleOutput == files = {} /\ call = [fn |-> "none"]
IdleMonitor == events = <<>>
IdleStreams == stdout = <<>> /\ flushed = 0 /\ stderr = <<>>

(***************************************************************************)
(* Specification of check_relevance: any text against any keyword list.    *)
(***************************************************************************)
InitRelevance ==
    /\ pc = "check_relevance"
    /\ text \in Texts
    /\ keywords \in KeywordLists
    /\ result = FALSE
    /\ results = <<>>
    /\ IdleSearch /\ IdleOutput /\ IdleMonitor /\ IdleStreams

CheckRelevance ==
    /\ pc = "check_relevance"
    /\ result' = check_relevance(text, keywords)
    /\ pc' = "relevance_done"
    /\ UNCHANGED <<text, keywords, kwIdx, queried, outcome, yielded, nPosts,
                   results, returned, stdout, flushed, stderr, files, call, events>>

NextRelevance == CheckRelevance

SpecRelevance == InitRelevance /\ [][NextRelevance]_vars

\* C1: check_relevance(T, K) is true exactly when some keyword of K, lower-cased,
\* occurs in T lower-cased, character by character at some offset; it is false for
\* every T when K is empty, and false for the empty T when K is non-empty and
\* holds no empty keyword.
C1_RelevanceIffSubstring ==
    pc = "relevance_done" =>
        /\ result <=>
              \E k \in 1..Len(keywords) :
                 \E off \in 0..(Len(text) - Len(keywords[k])) :
                    \A j \in 1..Len(keywords[k]) :
                       LowerChar(keywords[k][j]) = LowerChar(text[off + j])
        /\ (keywords = <<>> => result = FALSE)
        /\ ( (text = <<>> /\ keywords # <<>>
                /\ \A k \in 1..Len(keywords) : keywords[k] # <<>>)
             => result = FALSE )

\* A keyword in upper case matched inside a text in lower case.
C1_Witness ==
    /\ pc = "relevance_done"
    /\ result = TRUE
    /\ \E k \in 1..Len(keywords) : keywords[k] = <<"a", "B">>
    /\ text = <<"b", "A", "b">>

(***************************************************************************)
(* search_reddit                                                           *)
(***************************************************************************)
\* The post objects the client may yield: two permalinks, each with three
\* (score, num_comments) readings, so that one permalink can come back with
\* different numbers and different permalinks can tie on score + comments.
\* The post at "/a" has no author.
Permalinks == {"/a", "/b"}

ClientPosts ==
    { [ permalink |-> p,
        title |-> IF p = "/a" THEN <<"a", "B">> ELSE <<"b">>,
        subreddit |-> "wedding",
        score |-> sc[1],
        num_comments |-> sc[2],
        created_utc |-> 0,
        author |-> IF p = "/a" THEN None ELSE <<"b">> ]
      : p \in Permalinks, sc \in {<<1, 0>>, <<0, 1>>, <<1, 1>>} }

\* The keyword lists search_reddit is run with.
SearchKeywordLists == { <<>>, <<<<"a">>>>, <<<<"a", "B">>, <<"B">>>> }

\* The dict search_reddit builds from a post.
SearchRecord(post) ==
    [ title |-> post.title,
      subreddit |-> post.subreddit,
      score |-> post.score,
      comments |-> post.num_comments,
      url |-> <<"https://reddit.com", post.permalink>>,
      created |-> [isoformat |-> post.created_utc],
      author |-> IF post.author # None THEN post.author ELSE <<"[deleted]">> ]

\* A deduplication that lets a later record with the same URL replace the
\* earlier one.
RECURSIVE DedupeLastWins(_, _, _, _)
DedupeLastWins(rs, i, seen, unique) ==
    IF i > Len(rs) THEN unique
    ELSE IF rs[i].url \notin seen
         THEN DedupeLastWins(rs, i + 1, seen \cup {rs[i].url}, Append(unique, rs[i]))
         ELSE DedupeLastWins(rs, i + 1, seen,
                  [k \in 1..Len(unique) |->
                      IF unique[k].url = rs[i].url THEN rs[i] ELSE unique[k]])

\* The loop "for r in results" that fills unique_results, from record i on.
RECURSIVE Dedupe(_, _, _, _)
Dedupe(rs, i, seen, unique) ==
    IF i > Len(rs) THEN unique
    ELSE IF rs[i].url \notin seen
         THEN Dedupe(rs, i + 1, seen \cup {rs[i].url}, Append(unique, rs[i]))
         ELSE Dedupe(rs, i + 1, seen, unique)

\* The sort key: int(x["score"]) + int(x["comments"]).
Engagement(r) == r.score + r.comments

\* Insert r into a list already in descending key order, after every record
\* whose key is greater or equal: equal keys keep their order of insertion.
InsertDescending(sorted, r) ==
    LET n == Cardinality({k \in 1..Len(sorted) : Engagement(sorted[k]) >= Engagement(r)})
    IN  SubSeq(sorted, 1, n) \o <<r>> \o SubSeq(sorted, n + 1, Len(sorted))

RECURSIVE SortFrom(_, _, _)
SortFrom(rs, i, sorted) ==
    IF i > Len(rs) THEN sorted
    ELSE SortFrom(rs, i + 1, InsertDescending(sorted, rs[i]))

\* A descending sort made by sorting ascending and reversing: ties come out
\* in reverse order.
SortReversedAscending(rs) ==
    LET InsertAscending(sorted, r) ==
            LET n == Cardinality({k \in 1..Len(sorted) :
                                     Engagement(sorted[k]) <= Engagement(r)})
            IN  SubSeq(sorted, 1, n) \o <<r>> \o SubSeq(sorted, n + 1, Len(sorted))
        asc[i \in 0..Len(rs)] ==
            IF i = 0 THEN <<>> ELSE InsertAscending(asc[i - 1], rs[i])
    IN  [k \in 1..Len(rs) |-> asc[Len(rs)][Len(rs) + 1 - k]]

\* list.sort(key=..., reverse=True): descending by key, stable.
SortByEngagement(rs) == SortFrom(rs, 1, <<>>)

InitSearch ==
    /\ pc = "search_reddit"
    /\ keywords \in SearchKeywordLists
    /\ results = <<>>
    /\ IdleRelevance /\ IdleSearch /\ IdleOutput /\ IdleMonitor /\ IdleStreams

\* "for keyword in keywords": the next keyword is taken and subreddit.search
\* is called with it.
SearchKeyword ==
    /\ pc = "search_reddit"
    /\ kwIdx < Len(keywords)
    /\ kwIdx' = kwIdx + 1
    /\ queried' = Append(queried, keywords[kwIdx + 1])
    /\ nPosts' = 0
    /\ pc' = "searching"
    /\ UNCHANGED <<text, keywords, result, outcome, yielded, results, returned,
                   stdout, flushed, stderr, files, call, events>>

\* The search yields one more post (at most limit of them) and the loop body
\* appends its record to results.
SearchYield ==
    /\ pc = "searching"
    /\ nPosts < Limit
    /\ \E post \in ClientPosts :
          /\ results' = Append(results, SearchRecord(post))
          /\ yielded' = Append(yielded, [kw |-> kwIdx, post |-> post])
    /\ nPosts' = nPosts + 1
    /\ UNCHANGED <<pc, text, keywords, result, kwIdx, queried, outcome, returned,
                   stdout, flushed, stderr, files, call, events>>

\* The search is exhausted: the inner for loop ends.
SearchExhausted ==
    /\ pc = "searching"
    /\ outcome' = Append(outcome, "ok")
    /\ pc' = "search_reddit"
    /\ UNCHANGED <<text, keywords, result, kwIdx, queried, yielded, nPosts, results,
                   returned, stdout, flushed, stderr, files, call, events>>

\* An error handler that gives up the batch: no further keyword is queried.
SearchFailAbort ==
    /\ pc = "searching"
    /\ outcome' = Append(outcome, "failed")
    /\ stderr' = Append(stderr, [kind |-> "error", keyword |-> keywords[kwIdx]])
    /\ kwIdx' = Len(keywords)
    /\ pc' = "search_reddit"
    /\ UNCHANGED <<text, keywords, result, queried, yielded, nPosts, results,
                   returned, stdout, flushed, files, call, events>>

\* An error handler that drops what the failing keyword had appended.
SearchFailDiscard ==
    /\ pc = "searching"
    /\ outcome' = Append(outcome, "failed")
    /\ stderr' = Append(stderr, [kind |-> "error", keyword |-> keywords[kwIdx]])
    /\ results' = SubSeq(results, 1, Len(results) - nPosts)
    /\ pc' = "search_reddit"
    /\ UNCHANGED <<text, keywords, result, kwIdx, queried, yielded, nPosts,
                   returned, stdout, flushed, files, call, events>>

\* An Exception is raised by the search call or while iterating it, before
\* the first post or after any number of them: the except clause prints the
\* error to stderr and the outer loop goes on.  results is left as it is.
SearchFail ==
    /\ pc = "searching"
    /\ outcome' = Append(outcome, "failed")
    /\ stderr' = Append(stderr, [kind |-> "error", keyword |-> keywords[kwIdx]])
    /\ pc' = "search_reddit"
    /\ UNCHANGED <<text, keywords, result, kwIdx, queried, yielded, nPosts, results,
                   returned, stdout, flushed, files, call, events>>

\* The keyword loop is over: deduplicate by URL, sort by engagement, return.
SearchReturn ==
    /\ pc = "search_reddit"
    /\ kwIdx = Len(keywords)
    /\ returned' = SortByEngagement(Dedupe(results, 1, {}, <<>>))
    /\ pc' = "search_returned"
    /\ UNCHANGED <<text, keywords, result, kwIdx, queried, outcome, yielded, nPosts,
                   results, stdout, flushed, stderr, files, call, events>>

NextSearch ==
    \/ SearchKeyword
    \/ SearchYield
    \/ SearchExhausted
    \/ SearchFail
    \/ SearchReturn

SpecSearch == InitSearch /\ [][NextSearch]_vars

\* The URLs of a list of records.
Urls(rs) == {rs[i].url : i \in 1..Len(rs)}

\* The index of the first record of rs with URL u.
FirstIndex(rs, u) ==
    CHOOSE i \in 1..Len(rs) :
        rs[i].url = u /\ \A j \in 1..(i - 1) : rs[j].url # u

\* C2: the list returned holds exactly one record for each URL collected and no
\* other, and the record kept for a URL is the first one collected with it.
C2_DedupFirstWins ==
    pc = "search_returned" =>
        /\ Urls(returned) = Urls(results)
        /\ \A i, j \in 1..Len(returned) :
              returned[i].url = returned[j].url => i = j
        /\ \A i \in 1..Len(returned) :
              returned[i] = results[FirstIndex(results, returned[i].url)]

\* One URL collected twice with different numbers.
C2_Witness ==
    /\ pc = "search_returned"
    /\ \E i, j \in 1..Len(results) :
          i < j /\ results[i].url = results[j].url /\ results[i] # results[j]
    /\ Len(returned) = 2

\* The position in results of the record kept at position i of returned.
CollectedAt(i) == FirstIndex(results, returned[i].url)

\* C3: the list returned is in non-increasing order of score + comments, and
\* records with equal score + comments are in the order in which they were
\* first collected.
C3_RankedStable ==
    pc = "search_returned" =>
        \A i, j \in 1..Len(returned) :
            i < j =>
               /\ returned[i].score + returned[i].comments
                     >= returned[j].score + returned[j].comments
               /\ ( returned[i].score + returned[i].comments
                       = returned[j].score + returned[j].comments
                    => CollectedAt(i) < CollectedAt(j) )

\* A lower record collected first is ranked below, and two records tie.
C3_Witness ==
    /\ pc = "search_returned"
    /\ Len(returned) = 2
    /\ Len(results) >= 3
    /\ returned[1].score + returned[1].comments = returned[2].score + returned[2].comments
    /\ returned[1].score # returned[2].score

\* The keyword indices whose search failed / did not fail.
Failed == {k \in 1..Len(outcome) : outcome[k] = "failed"}
Succeeded == {k \in 1..Len(outcome) : outcome[k] = "ok"}

\* The error lines of stderr.
RECURSIVE ErrorKeywords(_)
ErrorKeywords(log) ==
    IF log = <<>> THEN <<>>
    ELSE IF log[1].kind = "error"
         THEN <<log[1].keyword>> \o ErrorKeywords(Tail(log))
         ELSE ErrorKeywords(Tail(log))

RECURSIVE FailedKeywords(_)
FailedKeywords(k) ==
    IF k > Len(outcome) THEN <<>>
    ELSE IF outcome[k] = "failed"
         THEN <<keywords[k]>> \o FailedKeywords(k + 1)
         ELSE FailedKeywords(k + 1)

\* C4: a failing keyword does not abort the batch.  At every moment the
\* keywords queried so far are the first keywords of the list, each once and in
\* order, and stderr holds one error line per failed keyword, naming it; when
\* search_reddit returns, every keyword has been queried and every post
\* yielded for a keyword that did not fail has its URL in the list returned.
C4_FailureIsolated ==
    /\ queried = SubSeq(keywords, 1, kwIdx)
    /\ ErrorKeywords(stderr) = FailedKeywords(1)
    /\ pc = "search_returned" =>
          /\ queried = keywords
          /\ Len(outcome) = Len(keywords)
          /\ \A i \in 1..Len(yielded) :
                yielded[i].kw \in Succeeded =>
                   SearchRecord(yielded[i].post).url \in Urls(returned)

\* The first keyword failed and the second was still queried and gave a record.
C4_Witness ==
    /\ pc = "search_returned"
    /\ Len(keywords) = 2
    /\ outcome = <<"failed", "ok">>
    /\ \E i \in 1..Len(yielded) : yielded[i].kw = 2

\* The posts of the history that satisfy a condition on the keyword index.
RECURSIVE YieldedBy(_, _)
YieldedBy(log, K) ==
    IF log = <<>> THEN <<>>
    ELSE IF log[1].kw \in K
         THEN <<SearchRecord(log[1].post)>> \o YieldedBy(Tail(log), K)
         ELSE YieldedBy(Tail(log), K)

\* C5 as stated: a keyword whose search raises counts as an empty result, so
\* the list returned is the one the posts of the keywords that did not fail
\* give, also when the error came after some posts.
C5_FailedKeywordIsEmpty ==
    pc = "search_returned" =>
        returned = SortByEngagement(Dedupe(YieldedBy(yielded, Succeeded), 1, {}, <<>>))

\* C5 amended: a keyword whose search raises contributes the posts yielded
\* before the error and nothing after it: each of those posts has its URL in
\* the list returned, and the list returned holds no URL that no keyword
\* yielded.
C5_FailedKeywordKeepsPartial ==
    pc = "search_returned" =>
        /\ \A i \in 1..Len(yielded) :
              yielded[i].kw \in Failed =>
                 SearchRecord(yielded[i].post).url \in Urls(returned)
        /\ Urls(returned) = {SearchRecord(yielded[i].post).url : i \in 1..Len(yielded)}

\* A keyword failed after yielding a post whose URL no other keyword yielded.
C5_Witness ==
    /\ pc = "search_returned"
    /\ \E i \in 1..Len(yielded) :
          /\ yielded[i].kw \in Failed
          /\ \A j \in 1..Len(yielded) :
                yielded[j].kw \in Succeeded => yielded[j].post.permalink # yielded[i].post.permalink

(***************************************************************************)
(* output_results and the search command of main                           *)
(***************************************************************************)
\* The file paths given as output_file: none, the empty string, and names
\* with and without the extensions the code looks at.
CsvSuffix == <<".", "c", "s", "v">>
JsonSuffix == <<".", "j", "s", "o", "n">>

OutputPaths ==
    { None, <<>>, <<"o">> \o CsvSuffix, <<"o">> \o JsonSuffix,
      <<"o", ".", "t", "x", "t">>, <<"c", "s", "v">> }

\* The limit argument: <<>> is None, <<n>> is the integer n.
OutputLimits == {<<>>} \cup {<<n>> : n \in -1..MaxLimit}

\* The records output_results is given.
OutputRecords == {SearchRecord(p) : p \in {q \in ClientPosts : q.score = 1}}

Min(a, b) == IF a <= b THEN a ELSE b
Max(a, b) == IF a >= b THEN a ELSE b

\* results[:n]
SliceTo(rs, n) ==
    IF n >= 0 THEN SubSeq(rs, 1, Min(n, Len(rs)))
    ELSE SubSeq(rs, 1, Max(Len(rs) + n, 0))

\* "if limit: results = results[:limit]": None and 0 are falsy.
Truncate(rs, limit) ==
    IF limit # <<>> /\ limit[1] # 0 THEN SliceTo(rs, limit[1]) ELSE rs

\* Which branch of the if / elif / else chain renders.
FormatBranch(output_format, output_file) ==
    IF output_format = "json" THEN "json"
    ELSE IF output_format = "csv" \/ (Truthy(output_file) /\ EndsWith(output_file, CsvSuffix))
         THEN "csv"
         ELSE "text"

Fieldnames == <<"title", "subreddit", "score", "comments", "url", "created", "author">>

\* json.dumps(results, indent=2): an array of the dicts.
RenderJson(rs) == [format |-> "json", records |-> rs]

\* csv.DictWriter: the header row, then one row per record in fieldnames order.
RenderCsv(rs) ==
    [ format |-> "csv",
      header |-> Fieldnames,
      rows |-> [i \in 1..Len(rs) |->
                  <<rs[i].title, rs[i].subreddit, rs[i].score, rs[i].comments,
                    rs[i].url, rs[i].created, rs[i].author>>] ]

\* The text format: the count line, then four lines per record.
RenderText(rs) ==
    [ format |-> "text",
      found |-> Len(rs),
      blocks |-> [i \in 1..Len(rs) |->
                    [ summary |-> <<rs[i].score, rs[i].comments, rs[i].subreddit>>,
                      title |-> rs[i].title,
                      url |-> rs[i].url,
                      author |-> rs[i].author ]] ]

\* open(path, "w") and write: the file is created or replaced.
WriteFile(fs, path, content) ==
    {f \in fs : f.path # path} \cup {[path |-> path, content |-> content]}

Saved(rs, path) == [kind |-> "saved", count |-> Len(rs), path |-> path]

\* The effect of output_results(rs, output_format, output_file, limit) on
\* stdout, stderr and the file system.
OutputEffect(rs, output_format, output_file, limit) ==
    LET shown == Truncate(rs, limit)
        branch == FormatBranch(output_format, output_file)
    IN  IF branch = "json" THEN
            IF Truthy(output_file) THEN
                /\ files' = WriteFile(files, output_file, RenderJson(shown))
                /\ stderr' = Append(stderr, Saved(shown, output_file))
                /\ stdout' = stdout
            ELSE
                /\ stdout' = Append(stdout, RenderJson(shown))
                /\ UNCHANGED <<files, stderr>>
        ELSE IF branch = "csv" THEN
            IF Truthy(output_file) THEN
                /\ files' = WriteFile(files, output_file, RenderCsv(shown))
                /\ stderr' = Append(stderr, Saved(shown, output_file))
                /\ stdout' = stdout
            ELSE
                /\ stdout' = Append(stdout, RenderCsv(shown))
                /\ UNCHANGED <<files, stderr>>
        ELSE
            /\ stdout' = Append(stdout, RenderText(shown))
            /\ UNCHANGED <<files, stderr>>

InitOutput ==
    /\ pc = "output"
    /\ results \in SeqsUpTo(OutputRecords, MaxResults)
    /\ keywords = <<>>
    /\ IdleRelevance /\ IdleSearch /\ IdleOutput /\ IdleMonitor /\ IdleStreams

\* A call of output_results with any format, path and limit.
OutputResults ==
    /\ pc = "output"
    /\ \E output_format \in {"text", "json", "csv"}, output_file \in OutputPaths,
          limit \in OutputLimits :
          /\ call' = [ fn |-> "output_results", output_format |-> output_format,
                       output_file |-> output_file, limit |-> limit ]
          /\ OutputEffect(results, output_format, output_file, limit)
    /\ pc' = "output_done"
    /\ UNCHANGED <<text, keywords, result, kwIdx, queried, outcome, yielded, nPosts,
                   results, returned, flushed, events>>

\* main: output_format = "json" if args.json else "text", and "json" when
\* args.output ends with ".json".
MainOutputFormat(json, output) ==
    IF Truthy(output) /\ EndsWith(output, JsonSuffix) THEN "json"
    ELSE IF json THEN "json" ELSE "text"

\* The search command of main once search_reddit has returned results:
\* args.json and args.output select the format, args.limit is an int.
MainSearch ==
    /\ pc = "output"
    /\ \E json \in BOOLEAN, output \in OutputPaths, limit \in OutputLimits \ {<<>>} :
          /\ call' = [ fn |-> "main", json |-> json, output_file |-> output,
                       limit |-> limit,
                       output_format |-> MainOutputFormat(json, output) ]
          /\ OutputEffect(results, MainOutputFormat(json, output), output, limit)
    /\ pc' = "main_done"
    /\ UNCHANGED <<text, keywords, result, kwIdx, queried, outcome, yielded, nPosts,
                   results, returned, flushed, events>>

NextOutput == OutputResults \/ MainSearch

SpecOutput == InitOutput /\ [][NextOutput]_vars

\* The URLs of the records a rendered document shows, in order.
RenderedUrls(doc) ==
    IF doc.format = "json" THEN [i \in 1..Len(doc.records) |-> doc.records[i].url]
    ELSE IF doc.format = "csv" THEN [i \in 1..Len(doc.rows) |-> doc.rows[i][5]]
    ELSE [i \in 1..Len(doc.blocks) |-> doc.blocks[i].url]

\* The documents written by the call, on stdout and in files.
Documents == {stdout[i] : i \in 1..Len(stdout)} \cup {f.content : f \in files}

\* C6: with a cap n >= 0 (0 included) on a list of L records, the call renders
\* exactly the first min(n, L) records, in order; with no cap, all L.
C6_CapTruncates ==
    pc = "output_done" =>
        \A doc \in Documents :
            LET n == IF call.limit = <<>> THEN Len(results) ELSE call.limit[1]
            IN  n >= 0 =>
                   RenderedUrls(doc) =
                      [i \in 1..Min(n, Len(results)) |-> results[i].url]

\* C7: with a file path, the records are written to that file, stderr gets
\* the confirmation with the record count and stdout gets nothing; with no
\* file path, the output is on stdout and no file is written.
C7_FileOrStdout ==
    pc = "output_done" =>
        IF Truthy(call.output_file)
        THEN /\ \E f \in files : f.path = call.output_file
             /\ \E i \in 1..Len(stderr) :
                   /\ stderr[i].kind = "saved"
                   /\ \E f \in files :
                         stderr[i].count = Len(RenderedUrls(f.content))
             /\ stdout = <<>>
        ELSE /\ Len(stdout) = 1
             /\ files = {}

\* C9: in the search command the extension of --output decides the format
\* of the file saved: .csv gives CSV (header and rows), .json gives JSON,
\* whatever --json is.
C9_ExtensionDecidesFormat ==
    pc = "main_done" =>
        /\ ( Truthy(call.output_file) /\ EndsWith(call.output_file, CsvSuffix) =>
                \E f \in files :
                   f.path = call.output_file /\ f.content.format = "csv" )
        /\ ( Truthy(call.output_file) /\ EndsWith(call.output_file, JsonSuffix) =>
                \E f \in files :
                   f.path = call.output_file /\ f.content.format = "json" )

(***************************************************************************)
(* monitor_reddit                                                          *)
(***************************************************************************)
\* The submissions the stream may deliver: a match in the title with no
\* selftext, a match in the selftext only, no match, and a malformed one
\* whose title is None.
StreamSubmissions ==
    { [permalink |-> "/m1", subreddit |-> "wedding", score |-> 1, num_comments |-> 0,
        title |-> <<"a", "B">>, selftext |-> None, author |-> None],
      [permalink |-> "/m2", subreddit |-> "wedding", score |-> 1, num_comments |-> 0,
        title |-> <<"b">>, selftext |-> <<"A">>, author |-> <<"b">>],
      [permalink |-> "/m3", subreddit |-> "wedding", score |-> 1, num_comments |-> 0,
        title |-> <<"b">>, selftext |-> <<>>, author |-> <<"b">>],
      [permalink |-> "/m4", subreddit |-> "wedding", score |-> 1, num_comments |-> 0,
        title |-> None, selftext |-> <<"a">>, author |-> <<"b">>] }

MonitorKeywordLists == { <<>>, <<<<"a">>>>, <<<<"B", "B">>, <<"A">>>> }

\* text.lower() raises AttributeError when the title is None.
Raises(submission) == submission.title = None

\* The condition of the if: title or selftext (None read as "") is relevant.
Relevant(submission, kws) ==
    LET selftext == IF Truthy(submission.selftext) THEN submission.selftext ELSE <<>>
    IN  check_relevance(submission.title, kws) \/ check_relevance(selftext, kws)

\* The dict monitor_reddit prints; created is the time of printing.
MonitorRecord(submission) ==
    [ title |-> submission.title,
      subreddit |-> submission.subreddit,
      score |-> submission.score,
      comments |-> submission.num_comments,
      url |-> <<"https://reddit.com", submission.permalink>>,
      created |-> "now",
      author |-> IF submission.author # None THEN submission.author ELSE <<"[deleted]">> ]

InitMonitor ==
    /\ pc = "monitor_reddit"
    /\ keywords \in MonitorKeywordLists
    /\ results = <<>>
    /\ IdleRelevance /\ IdleSearch /\ IdleOutput /\ IdleMonitor /\ IdleStreams

\* The two header lines are printed (not flushed) and the stream is opened.
MonitorStart ==
    /\ pc = "monitor_reddit"
    /\ stdout' = <<[header |-> keywords], [header |-> "rule"]>>
    /\ pc' = "streaming"
    /\ UNCHANGED <<text, keywords, result, kwIdx, queried, outcome, yielded, nPosts,
                   results, returned, flushed, stderr, files, call, events>>

\* A loop body that prints the match and does not flush.
MonitorSubmissionNoFlush ==
    /\ pc = "streaming"
    /\ Len(events) < MaxEvents
    /\ \E submission \in StreamSubmissions :
          /\ events' = Append(events, submission)
          /\ IF Raises(submission) THEN
                pc' = "crashed" /\ UNCHANGED <<stdout, flushed>>
             ELSE IF Relevant(submission, keywords) THEN
                /\ stdout' = Append(stdout, [json |-> MonitorRecord(submission)])
                /\ UNCHANGED <<pc, flushed>>
             ELSE UNCHANGED <<pc, stdout, flushed>>
    /\ UNCHANGED <<text, keywords, result, kwIdx, queried, outcome, yielded, nPosts,
                   results, returned, stderr, files, call>>

\* A loop body that returns after the first match.
MonitorSubmissionStopsOnMatch ==
    /\ pc = "streaming"
    /\ Len(events) < MaxEvents
    /\ \E submission \in StreamSubmissions :
          /\ events' = Append(events, submission)
          /\ IF Raises(submission) THEN
                pc' = "crashed" /\ UNCHANGED <<stdout, flushed>>
             ELSE IF Relevant(submission, keywords) THEN
                /\ stdout' = Append(stdout, [json |-> MonitorRecord(submission)])
                /\ flushed' = Len(stdout) + 1
                /\ pc' = "monitor_returned"
             ELSE UNCHANGED <<pc, stdout, flushed>>
    /\ UNCHANGED <<text, keywords, result, kwIdx, queried, outcome, yielded, nPosts,
                   results, returned, stderr, files, call>>

\* One iteration of "for submission in subreddit.stream.submissions(...)":
\* the next submission is taken; an error in the body is not caught and ends
\* monitor_reddit; a match is printed as one JSON line and stdout is flushed.
MonitorSubmission ==
    /\ pc = "streaming"
    /\ Len(events) < MaxEvents
    /\ \E submission \in StreamSubmissions :
          /\ events' = Append(events, submission)
          /\ IF Raises(submission) THEN
                pc' = "crashed" /\ UNCHANGED <<stdout, flushed>>
             ELSE IF Relevant(submission, keywords) THEN
                /\ stdout' = Append(stdout, [json |-> MonitorRecord(submission)])
                /\ flushed' = Len(stdout) + 1
                /\ pc' = pc
             ELSE UNCHANGED <<pc, stdout, flushed>>
    /\ UNCHANGED <<text, keywords, result, kwIdx, queried, outcome, yielded, nPosts,
                   results, returned, stderr, files, call>>

NextMonitor == MonitorStart \/ MonitorSubmission

SpecMonitor == InitMonitor /\ [][NextMonitor]_vars

\* Whether some keyword, in lower case, occurs in the title or in the
\* selftext in lower case.
Matches(submission) ==
    \E k \in 1..Len(keywords) :
        \/ Contains(Lower(submission.title), Lower(keywords[k]))
        \/ /\ submission.selftext # None
           /\ Contains(Lower(submission.selftext), Lower(keywords[k]))

\* The lines expected for a sequence of submissions: one per match, in order.
RECURSIVE ExpectedLines(_)
ExpectedLines(es) ==
    IF es = <<>> THEN <<>>
    ELSE IF ~Raises(es[1]) /\ Matches(es[1])
         THEN <<[json |-> MonitorRecord(es[1])]>> \o ExpectedLines(Tail(es))
         ELSE ExpectedLines(Tail(es))

\* The JSON lines on stdout: what follows the two header lines.
JsonLines == SubSeq(stdout, 3, Len(stdout))

\* C8: the JSON lines on stdout are, in arrival order, exactly one line per
\* submission taken whose title or selftext matches a keyword, and none for
\* the others; whenever the loop is about to take the next submission, every
\* JSON line written so far has been flushed.
C8_MatchesPrintedAndFlushed ==
    pc \in {"streaming", "crashed"} =>
        /\ JsonLines = ExpectedLines(events)
        /\ (pc = "streaming" /\ JsonLines # <<>>) => flushed = Len(stdout)

\* A match, then a submission that does not match, then a match.
C8_Witness ==
    /\ pc = "streaming"
    /\ Len(events) = 3
    /\ events[1].permalink = "/m2" /\ events[2].permalink = "/m3"
    /\ events[3].permalink = "/m1"
    /\ Len(JsonLines) = 2

\* C10: the loop leaves "streaming" only by an error raised while handling a
\* submission, which ends the monitor; no match, no miss and no number of
\* submissions makes it return, and an erroring submission is never skipped.
C10_NoInternalStop ==
    [][ /\ pc = "streaming" =>
            \/ pc' = "streaming"
            \/ pc' = "crashed" /\ Len(events') = Len(events) + 1
                  /\ Raises(events'[Len(events')])
        /\ (pc = "streaming" /\ Len(events') = Len(events) + 1
               /\ Raises(events'[Len(events')])) => pc' = "crashed"
        /\ pc = "crashed" => pc' = "crashed" ]_vars

\* The loop went on after a match and after a miss, then an error ended it.
C10_Witness ==
    /\ pc = "crashed"
    /\ Len(events) = 3
    /\ Len(JsonLines) = 1
    /\ events[1].permalink = "/m1" /\ events[2].permalink = "/m3"
====
